---- MODULE Spec2Model ----
(***************************************************************************)
(* QemuSensor (camera/qemu-pipeline3/QemuSensor.cpp): the sensor worker    *)
(* thread (threadLoop), the control surface called by foreign threads      *)
(* (setters, waitForVSync, waitForNewFrame), the supervisor (startUp,      *)
(* shutDown) and the upstream camera client.                               *)
(*                                                                         *)
(* Every mutex-protected critical section is one action.  A condition wait *)
(* splits its critical section in two: the part up to the wait (which      *)
(* releases the mutex) and the part after the wake-up (which re-acquires   *)
(* it).  A wait ends by a signal, by its timeout, or spuriously.           *)
(***************************************************************************)
EXTENDS Integers, Sequences, FiniteSets, TLC

\* ------------------------------------------------------------------ bounds
MaxInstalls  == 2   \* setDestinationBuffers calls with a non-null Buffers
MaxIter      == 3   \* worker iterations (threadLoop calls) in a run
MaxStartUps  == 2   \* startUp calls in a run
MaxFrameNumber == 1 \* largest frame number a caller picks freely
LongWork     == 40000000  \* a slow iteration's work, ns (over one min period)

\* --------------------------------------------------------------- constants
kFrameDurationMin == 33331760
kFrameDurationMax == 300000000
timeAccuracy      == 2000000
NoDim             == -1

NULL == 0
Tokens == 1..MaxInstalls            \* identities of installed Buffers objects
Consumers == {"c1", "c2"}           \* threads calling waitForNewFrame
VWaiters  == {"v1", "v2"}           \* threads calling waitForVSync
Status == {"OK", "ERR"}             \* status_t of an upstream operation

\* StreamBuffer (format, dimensions, dataSpace; img is its byte count, 0 when
\* the region is the caller's and its size is not known to the sensor).
SB(id, fmt, w, h, ds) ==
    [streamId |-> id, width |-> w, height |-> h, format |-> fmt,
     stride |-> w, dataSpace |-> ds, img |-> 0]

\* The Buffers sets callers install: requests of the scenarios of the spec.
ReqNV21    == << SB(1, "YCbCr_420_888", 640, 480, "UNKNOWN") >>
ReqRGBA    == << SB(1, "RGBA_8888", 640, 480, "UNKNOWN") >>
ReqNV21Big == << SB(1, "YCbCr_420_888", 1280, 720, "UNKNOWN") >>
ReqBlob    == << SB(1, "BLOB", 640, 480, "JFIF") >>
Requests == {ReqNV21, ReqRGBA, ReqNV21Big, ReqBlob}
\* both capture formats in one set; formats the dispatch skips before one it
\* captures, at another resolution
ReqMixed   == << SB(1, "RGBA_8888", 640, 480, "UNKNOWN"),
                 SB(2, "YCbCr_420_888", 640, 480, "UNKNOWN") >>
ReqSkips   == << SB(1, "RGB_888", 640, 480, "UNKNOWN"),
                 SB(2, "BLOB", 640, 480, "DEPTH"),
                 SB(3, "RAW16", 640, 480, "UNKNOWN"),
                 SB(4, "YCbCr_420_888", 1280, 720, "UNKNOWN") >>
SameDimsRequests == {ReqNV21, ReqRGBA, ReqMixed}
DispatchRequests == {ReqBlob, ReqMixed, ReqSkips}

VARIABLES
    \* ControlSlot (mControlMutex)
    mFrameDuration, mNextBuffers, mFrameNumber, mListener, mGotVSync,
    \* ReadoutSlot (mReadoutMutex)
    mCapturedBuffers, mCaptureTime,
    \* members only the worker uses
    mNextCapturedBuffers, mNextCaptureTime,
    mLastRequestWidth, mLastRequestHeight,
    \* sensor state, written by the worker and the supervisor
    mState,
    \* Thread base class
    mRunning, mExitPending,
    \* worker: position and the locals of threadLoop
    wpc, loc,
    \* the Buffers objects (by token) and the monotonic clock
    heap, now,
    \* foreign threads: position of each waitForNewFrame / waitForVSync caller
    cpc, vpc,
    \* supervisor: position, number of startUp calls
    spc, startUps,
    \* upstream client: the active start, NoUp when stopped or never started
    upActive,
    \* history (not read by the program)
    nextTok,      \* token of the next installed Buffers
    iter,         \* iterations started = VSyncs raised
    evs,          \* events of the current iteration, in order
    cap,          \* per token: capture history
    overwritten,  \* tokens overwritten in the ReadoutSlot before being collected
    lateWrites,   \* tokens written by the worker after being published
    expLog,       \* EXPOSURE_START events delivered, in order
    lastRet,      \* the last return of waitForNewFrame
    vwin,         \* per waitForVSync caller: VSyncs seen during its wait
    lastVRet,     \* the last return of waitForVSync
    upLog,        \* upstream calls of the last step that made any
    upHist,       \* summary of all upstream calls so far
    disp,         \* the dispatch of the last buffer
    held          \* per step of the code: the mutexes it held when it last ran

ctrlVars    == <<mFrameDuration, mNextBuffers, mFrameNumber, mListener, mGotVSync>>
readoutVars == <<mCapturedBuffers, mCaptureTime>>
latchVars   == <<mLastRequestWidth, mLastRequestHeight>>
workerVars  == <<mNextCapturedBuffers, mNextCaptureTime, wpc, loc>>
threadVars  == <<mRunning, mExitPending>>
superVars   == <<spc, startUps>>
histVars    == <<nextTok, iter, evs, cap, overwritten, lateWrites, expLog,
                 lastRet, vwin, lastVRet, upLog, upHist, disp>>
vars == <<ctrlVars, readoutVars, latchVars, workerVars, threadVars, superVars,
          mState, heap, now, cpc, vpc, upActive, histVars, held>>

\* ----------------------------------------------------------------- mutexes
\* The mutexes a step of the code holds while it runs (its Mutex::Autolock).
Steps == {"readyToRun", "snapshot", "handoff", "capture", "dispatch", "pace",
          "setter", "waitForVSync", "waitForNewFrame", "wake", "startUp",
          "shutDown"}
Holding(step, locks) == [held EXCEPT ![step] = locks]

\* the setters (lines 126, 132, 137, 178)
SetterLocks == {"mControlMutex"}
\* waitForVSync (line 143); the wait releases the mutex
WaitForVSyncLocks == {"mControlMutex"}
\* waitForNewFrame (line 155); the wait releases the mutex
WaitForNewFrameLocks == {"mReadoutMutex"}
\* threadLoop, stage 1: the block of lines 203-217
SnapshotLocks == {"mControlMutex"}

\* faulty variant: the block of stage 1 is left open over the handoff
HandoffLocksNested == {"mControlMutex", "mReadoutMutex"}

\* threadLoop, stage 3: the block of lines 248-260
HandoffLocks == {"mReadoutMutex"}
\* threadLoop, stage 2 and the pacing sleep (lines 265-336): no Autolock
CaptureLocks == {}
\* startUp, shutDown and readyToRun take no mutex (lines 72-123, 182-188)
LifecycleLocks == {}
\* a thread whose condition wait has ended and that has yet to get the mutex
WakingLocks == {}

NoUp == <<NoDim, NoDim>>
\* cap[t]: how often and in which iteration t was captured (made the capture
\* target), the capture time and the listener of that iteration, how often and
\* in which iteration it was published to the ReadoutSlot, how often it was
\* collected, the EXPOSURE_START events and the fetchFrame calls for it.
NoCap == [count |-> 0, iter |-> 0, time |-> 0, listener |-> NULL, pubs |-> 0,
          pubIter |-> 0, collected |-> 0, exposures |-> 0, fetches |-> 0]
NoRet == [ok |-> FALSE, time |-> 0, tok |-> NULL, slotAfter |-> NULL]
NoVRet == [ok |-> FALSE, duringWait |-> FALSE, beforeReturn |-> FALSE]
\* upHist: connect has succeeded; a start has succeeded; a stop was issued
\* since the last successful start; the worker has called the upstream since
\* the last startUp; the numbers of start and stop calls; the result of the
\* first start.
NoUpHist == [connected |-> FALSE, started |-> FALSE, stopIssued |-> FALSE,
             workerCalled |-> FALSE, starts |-> 0, stops |-> 0,
             firstStart |-> "none"]
\* disp: the set and position of the buffer, the buffer, the latch, the sensor
\* state and the size of the set before and after its dispatch, the upstream
\* calls of the dispatch.
NoBuffer == [streamId |-> 0, width |-> 0, height |-> 0, format |-> "NONE",
             stride |-> 0, dataSpace |-> "UNSET", img |-> 0]
NoDisp == [tok |-> NULL, i |-> 0, b |-> NoBuffer, lw |-> NoDim, lh |-> NoDim,
           st |-> "INITIAL", len |-> 0, lwAfter |-> NoDim, lhAfter |-> NoDim,
           stAfter |-> "INITIAL", lenAfter |-> 0, calls |-> << >>]
NoLoc == [frameDuration |-> 0, nextBuffers |-> NULL, frameNumber |-> 0,
          listener |-> NULL, capturedBuffers |-> NULL, captureTime |-> 0,
          startRealTime |-> 0, i |-> 0]

\* the state after the constructor (lines 50-66)
Init ==
    /\ mFrameDuration = kFrameDurationMin
    /\ mNextBuffers = NULL
    /\ mFrameNumber = 0
    /\ mListener = NULL
    /\ mGotVSync = FALSE
    /\ mCapturedBuffers = NULL
    /\ mCaptureTime = 0
    /\ mNextCapturedBuffers = NULL
    /\ mNextCaptureTime = 0
    /\ mLastRequestWidth = NoDim
    /\ mLastRequestHeight = NoDim
    /\ mState = "INITIAL"
    /\ mRunning = FALSE
    /\ mExitPending = FALSE
    /\ wpc = "stopped"
    /\ loc = NoLoc
    /\ heap = [t \in Tokens |-> << >>]
    /\ now = 0
    /\ cpc = [c \in Consumers |-> "idle"]
    /\ vpc = [v \in VWaiters |-> "idle"]
    /\ spc = "down"
    /\ startUps = 0
    /\ upActive = NoUp
    /\ nextTok = 1
    /\ iter = 0
    /\ evs = << >>
    /\ cap = [t \in Tokens |-> NoCap]
    /\ overwritten = {}
    /\ lateWrites = {}
    /\ expLog = << >>
    /\ lastRet = NoRet
    /\ vwin = [v \in VWaiters |-> [duringWait |-> FALSE, beforeReturn |-> FALSE]]
    /\ lastVRet = NoVRet
    /\ upLog = << >>
    /\ upHist = NoUpHist
    /\ disp = NoDisp
    /\ held = [s \in Steps |-> {}]

\* Condition::signal(): wakes one of the threads waiting on the condition, if
\* any.  pcs maps threads to positions; the result is the set of possible
\* outcomes.
SignalOne(pcs, waiting, woken) ==
    LET ws == {t \in DOMAIN pcs : pcs[t] = waiting}
    IN IF ws = {} THEN {pcs} ELSE {[pcs EXCEPT ![t] = woken] : t \in ws}


\* ------------------------------------------------------------------ worker

\* Thread::run -> readyToRun (lines 182-188); the Thread base class calls
\* threadLoop afterwards unless an exit was requested meanwhile.
ReadyToRun ==
    /\ wpc = "ready"
    /\ held' = Holding("readyToRun", LifecycleLocks)
    /\ mNextCaptureTime' = 0
    /\ mNextCapturedBuffers' = NULL
    /\ loc' = NoLoc
    /\ IF mExitPending
       THEN wpc' = "stopped" /\ mRunning' = FALSE
       ELSE wpc' = "stage1" /\ UNCHANGED mRunning
    /\ UNCHANGED <<ctrlVars, readoutVars, latchVars, mExitPending, superVars,
                   mState, heap, now, cpc, vpc, upActive, histVars>>

\* faulty variant: the snapshot leaves the installed reference in the ControlSlot
KeepNextBuffers == mNextBuffers

\* line 211: "Don't reuse a buffer set."
NextBuffersAfterSnapshot == NULL

\* Stage 1 (lines 199-217) and the start time of the iteration (226-232).
WorkerSnapshot ==
    /\ wpc = "stage1"
    /\ held' = Holding("snapshot", SnapshotLocks)
    /\ iter < MaxIter \/ mExitPending
    /\ loc' = [frameDuration |-> mFrameDuration, nextBuffers |-> mNextBuffers,
               frameNumber |-> mFrameNumber, listener |-> mListener,
               capturedBuffers |-> NULL, captureTime |-> 0,
               startRealTime |-> now, i |-> 0]
    /\ mNextBuffers' = NextBuffersAfterSnapshot
    /\ mGotVSync' = TRUE
    /\ vpc' \in SignalOne(vpc, "waiting", "wokenOK")
    /\ vwin' = [v \in VWaiters |->
                  IF vpc[v] = "waiting"
                  THEN [duringWait |-> TRUE, beforeReturn |-> TRUE]
                  ELSE IF vpc[v] \in {"wokenOK", "wokenTimeout", "wokenErr"}
                  THEN [vwin[v] EXCEPT !.beforeReturn = TRUE]
                  ELSE vwin[v]]
    /\ iter' = iter + 1
    /\ evs' = << "VSYNC" >>
    /\ wpc' = "handoff"
    /\ UNCHANGED <<mFrameDuration, mFrameNumber, mListener, readoutVars,
                   latchVars, mNextCapturedBuffers, mNextCaptureTime,
                   threadVars, superVars, mState, heap, now, cpc, upActive,
                   nextTok, cap, overwritten, lateWrites, expLog, lastRet,
                   lastVRet, upLog, upHist, disp>>

\* faulty variant: the handoff reads out the set snapshotted in this iteration
ReadoutSourceEarly == [buffers |-> loc.nextBuffers, time |-> loc.startRealTime]

\* faulty variant: the handoff stamps the set with the current iteration's time
ReadoutSourceNow == [buffers |-> mNextCapturedBuffers, time |-> loc.startRealTime]

\* lines 240-241: the set and the time the handoff reads out.
ReadoutSource == [buffers |-> mNextCapturedBuffers, time |-> mNextCaptureTime]

\* lines 256-259: store into the ReadoutSlot and signal `available`.
Publish(tok, time) ==
    /\ mCapturedBuffers' = tok
    /\ mCaptureTime' = time
    /\ cpc' \in SignalOne(cpc, "waiting", "wokenOK")
    /\ loc' = [loc EXCEPT !.capturedBuffers = NULL]
    /\ overwritten' = IF mCapturedBuffers # NULL
                      THEN overwritten \cup {mCapturedBuffers}
                      ELSE overwritten
    /\ cap' = [cap EXCEPT ![tok].pubs = @ + 1, ![tok].pubIter = iter]
    /\ evs' = Append(evs, "READOUT")

\* Stage 3 (lines 223-260) up to the wait on mReadoutComplete.
WorkerHandoff ==
    /\ wpc = "handoff"
    /\ held' = Holding("handoff", HandoffLocks)
    /\ IF ReadoutSource.buffers = NULL
       THEN /\ wpc' = "capture"
            /\ UNCHANGED <<readoutVars, cpc, loc, overwritten, cap, evs>>
       ELSE IF mCapturedBuffers # NULL
       THEN /\ wpc' = "waitComplete"
            /\ loc' = [loc EXCEPT !.capturedBuffers = ReadoutSource.buffers,
                                  !.captureTime = ReadoutSource.time]
            /\ UNCHANGED <<readoutVars, cpc, overwritten, cap, evs>>
       ELSE /\ wpc' = "capture"
            /\ Publish(ReadoutSource.buffers, ReadoutSource.time)
    /\ UNCHANGED <<ctrlVars, latchVars, mNextCapturedBuffers, mNextCaptureTime,
                   threadVars, superVars, mState, heap, now, vpc, upActive,
                   nextTok, iter, lateWrites, expLog, lastRet, vwin, lastVRet,
                   upLog, upHist, disp>>

\* line 253: Condition::wait may return without a signal (pthread_cond_wait).
WorkerSpuriousWake ==
    /\ wpc = "waitComplete"
    /\ held' = Holding("wake", WakingLocks)
    /\ wpc' = "wokenComplete"
    /\ UNCHANGED <<ctrlVars, readoutVars, latchVars, mNextCapturedBuffers,
                   mNextCaptureTime, loc, threadVars, superVars, mState, heap,
                   now, cpc, vpc, upActive, histVars>>

\* lines 253-260: after the wait the worker re-acquires mReadoutMutex and
\* stores; the `if` of line 251 is not evaluated again.
WorkerResume ==
    /\ wpc = "wokenComplete"
    /\ held' = Holding("handoff", HandoffLocks)
    /\ wpc' = "capture"
    /\ Publish(loc.capturedBuffers, loc.captureTime)
    /\ UNCHANGED <<ctrlVars, latchVars, mNextCapturedBuffers, mNextCaptureTime,
                   threadVars, superVars, mState, heap, now, vpc, upActive,
                   nextTok, iter, lateWrites, expLog, lastRet, vwin, lastVRet,
                   upLog, upHist, disp>>

\* faulty variant: an iteration without a destination keeps the previous target
KeepTargetIfNull(nextBuffers) ==
    IF nextBuffers = NULL THEN mNextCapturedBuffers ELSE nextBuffers

\* line 266: this iteration's capture target replaces the previous one.
CaptureTarget(nextBuffers) == nextBuffers

\* faulty variant: the capture time is not advanced
StaleCaptureTime == mNextCaptureTime

\* line 265: the capture time is the iteration's start time (simulatedTime).
CaptureTime == loc.startRealTime

\* lines 269-272: the listener, if any, gets one EXPOSURE_START.
ExposureStartEvents(listener, tok, frameNumber, time) ==
    IF listener # NULL
    THEN << [tok |-> tok, frameNumber |-> frameNumber, time |-> time,
             iter |-> iter] >>
    ELSE << >>

\* Stage 2 (lines 265-272): record the capture, notify the listener.
WorkerCapture ==
    /\ wpc = "capture"
    /\ held' = Holding("capture", CaptureLocks)
    /\ mNextCaptureTime' = CaptureTime
    /\ mNextCapturedBuffers' = CaptureTarget(loc.nextBuffers)
    /\ LET tok == mNextCapturedBuffers'
           es == ExposureStartEvents(loc.listener, tok, loc.frameNumber,
                                     mNextCaptureTime')
       IN IF tok # NULL
          THEN /\ expLog' = expLog \o es
               /\ evs' = IF es # << >> THEN Append(evs, "EXPOSURE") ELSE evs
               /\ cap' = [cap EXCEPT ![tok].count = @ + 1, ![tok].iter = iter,
                                     ![tok].time = mNextCaptureTime',
                                     ![tok].listener = loc.listener,
                                     ![tok].exposures = @ + Len(es)]
               /\ wpc' = IF Len(heap[tok]) > 0 THEN "dispatch" ELSE "pace"
          ELSE /\ wpc' = "pace"
               /\ UNCHANGED <<expLog, evs, cap>>
    /\ loc' = [loc EXCEPT !.i = 1]
    /\ disp' = [NoDisp EXCEPT !.tok = mNextCapturedBuffers']
    /\ UNCHANGED <<ctrlVars, readoutVars, latchVars, threadVars, superVars,
                   mState, heap, now, cpc, vpc, upActive, nextTok, iter,
                   overwritten, lateWrites, lastRet, vwin, lastVRet, upLog,
                   upHist>>

\* ---------------------------------------------------------- capture dispatch

\* UpstreamClient (mCameraQemuClient): each operation returns OK or an error.
\* upActive is the dimensions of the last successful queryStart that no
\* successful queryStop followed.
StopCall(res) == [op |-> "stop", res |-> res, w |-> NoDim, h |-> NoDim,
                  yuvSize |-> 0, rgbaSize |-> 0, active |-> upActive]
StartCall(res, w, h, act) ==
    [op |-> "start", res |-> res, w |-> w, h |-> h,
     yuvSize |-> 0, rgbaSize |-> 0, active |-> act]
FrameCall(w, h, yuvSize, rgbaSize, act) ==
    [op |-> "fetch", res |-> "OK", w |-> w, h |-> h,
     yuvSize |-> yuvSize, rgbaSize |-> rgbaSize, active |-> act]

\* upHist after one more upstream call, and after a sequence of them.
AfterCall(h, c) ==
    CASE c.op = "connect" -> [h EXCEPT !.connected = @ \/ c.res = "OK"]
      [] c.op = "start" ->
            [h EXCEPT !.starts = @ + 1,
                      !.firstStart = IF @ = "none" THEN c.res ELSE @,
                      !.started = @ \/ c.res = "OK",
                      !.stopIssued = @ /\ c.res # "OK"]
      [] c.op = "stop" -> [h EXCEPT !.stops = @ + 1, !.stopIssued = TRUE]
      [] OTHER -> h

RECURSIVE AfterCalls(_, _)
AfterCalls(h, calls) ==
    IF calls = << >> THEN h
    ELSE AfterCalls(AfterCall(h, Head(calls)), Tail(calls))

\* What one capture call leaves: the latch, the sensor state, the upstream's
\* active start and the upstream calls it made, in order.
Unchanged(calls) ==
    [lw |-> mLastRequestWidth, lh |-> mLastRequestHeight, st |-> mState,
     act |-> upActive, calls |-> calls]

\* faulty variant: the upstream is stopped before every start, the first too
RestartCameraStopAlways(width, height, stopRes, startRes) ==
    LET stopped == stopRes = "OK"
        st1   == IF stopped THEN "CONNECTED" ELSE mState
        act1  == IF stopped THEN NoUp ELSE upActive
        calls == << StopCall(stopRes), StartCall(startRes, width, height, act1) >>
    IN IF startRes = "OK"
       THEN [lw |-> width, lh |-> height, st |-> "STARTED",
             act |-> <<width, height>>, calls |-> calls]
       ELSE [lw |-> mLastRequestWidth, lh |-> mLastRequestHeight, st |-> st1,
             act |-> act1, calls |-> calls]

\* lines 342-385 / 410-453: stop (unless this is the first request) and start
\* the upstream when the dimensions differ from the latch.  stopRes, startRes
\* are the results queryStop and queryStart return if called.
RestartCamera(width, height, stopRes, startRes) ==
    LET needStop == mLastRequestWidth # NoDim \/ mLastRequestHeight # NoDim
        stopped  == needStop /\ stopRes = "OK"
        st1   == IF stopped THEN "CONNECTED" ELSE mState
        act1  == IF stopped THEN NoUp ELSE upActive
        calls == (IF needStop THEN << StopCall(stopRes) >> ELSE << >>)
                 \o << StartCall(startRes, width, height, act1) >>
    IN IF startRes = "OK"
       THEN [lw |-> width, lh |-> height, st |-> "STARTED",
             act |-> <<width, height>>, calls |-> calls]
       ELSE [lw |-> mLastRequestWidth, lh |-> mLastRequestHeight, st |-> st1,
             act |-> act1, calls |-> calls]

\* faulty variant: the RGBA path does not look at the latch the NV21 path set
captureRGBAOwnLatch(width, height, stopRes, startRes) ==
    LET r == RestartCamera(width, height, stopRes, startRes)
    IN IF startRes = "OK"
       THEN [r EXCEPT !.calls =
                @ \o << FrameCall(width, height, 0, width * height * 4, r.act) >>]
       ELSE r

\* captureRGBA (lines 339-402): returns after a failed start, else queryFrame
\* on the RGBA path with width*height*4 bytes.
captureRGBA(width, height, stopRes, startRes) ==
    IF width # mLastRequestWidth \/ height # mLastRequestHeight
    THEN LET r == RestartCamera(width, height, stopRes, startRes)
         IN IF startRes = "OK"
            THEN [r EXCEPT !.calls =
                     @ \o << FrameCall(width, height, 0, width * height * 4, r.act) >>]
            ELSE r
    ELSE Unchanged(<< FrameCall(width, height, 0, width * height * 4, upActive) >>)

\* captureNV21 (lines 408-470): the same on the YUV path with
\* width*height*12/8 bytes.
captureNV21(width, height, stopRes, startRes) ==
    IF width # mLastRequestWidth \/ height # mLastRequestHeight
    THEN LET r == RestartCamera(width, height, stopRes, startRes)
         IN IF startRes = "OK"
            THEN [r EXCEPT !.calls =
                     @ \o << FrameCall(width, height, (width * height * 12) \div 8, 0, r.act) >>]
            ELSE r
    ELSE Unchanged(<< FrameCall(width, height, (width * height * 12) \div 8, 0, upActive) >>)

\* faulty variant: the auxiliary region has the size of an NV21 frame
AuxBufferNV21Sized(b) ==
    [streamId |-> 0, width |-> b.width, height |-> b.height,
     format |-> "YCbCr_420_888", stride |-> b.width, dataSpace |-> "UNSET",
     img |-> (b.width * b.height * 12) \div 8]

\* lines 296-305: the auxiliary buffer appended for a BLOB.
AuxBuffer(b) ==
    [streamId |-> 0, width |-> b.width, height |-> b.height,
     format |-> "YCbCr_420_888", stride |-> b.width, dataSpace |-> "UNSET",
     img |-> b.width * b.height * 3]

\* faulty variant: the RGB_888 case lacks its break and runs the RGBA case
DispatchOneFallThrough(b, stopRes, startRes) ==
    CASE b.format \in {"RGB_888", "RGBA_8888"} ->
            captureRGBA(b.width, b.height, stopRes, startRes)
      [] b.format = "YCbCr_420_888" -> captureNV21(b.width, b.height, stopRes, startRes)
      [] OTHER -> Unchanged(<< >>)

\* lines 281-315: the format switch for one buffer.
DispatchOne(b, stopRes, startRes) ==
    CASE b.format = "RGBA_8888" -> captureRGBA(b.width, b.height, stopRes, startRes)
      [] b.format = "YCbCr_420_888" -> captureNV21(b.width, b.height, stopRes, startRes)
      [] OTHER -> Unchanged(<< >>)

AppendsAux(b) == b.format = "BLOB" /\ b.dataSpace # "DEPTH"

\* One pass of the loop of lines 275-316; the bound is read again each pass.
WorkerDispatch(stopRes, startRes) ==
    /\ wpc = "dispatch"
    /\ held' = Holding("dispatch", CaptureLocks)
    /\ LET tok == mNextCapturedBuffers
           b   == heap[tok][loc.i]
       IN   LET r == DispatchOne(b, stopRes, startRes)
                fetches == Len(SelectSeq(r.calls, LAMBDA c : c.op = "fetch"))
            IN /\ mLastRequestWidth' = r.lw
               /\ mLastRequestHeight' = r.lh
               /\ mState' = r.st
               /\ upActive' = r.act
               /\ upLog' = r.calls
               /\ upHist' = [AfterCalls(upHist, r.calls) EXCEPT
                                !.workerCalled = @ \/ r.calls # << >>]
               /\ heap' = IF AppendsAux(b)
                          THEN [heap EXCEPT ![tok] = Append(@, AuxBuffer(b))]
                          ELSE heap
               /\ cap' = [cap EXCEPT ![tok].fetches = @ + fetches]
               /\ lateWrites' = IF (fetches > 0 \/ AppendsAux(b)) /\ cap[tok].pubs > 0
                                THEN lateWrites \cup {tok}
                                ELSE lateWrites
               /\ loc' = [loc EXCEPT !.i = @ + 1]
               /\ wpc' = IF loc.i + 1 <= Len(heap'[tok]) THEN "dispatch" ELSE "pace"
               /\ disp' = [tok |-> tok, i |-> loc.i, b |-> b,
                           lw |-> mLastRequestWidth, lh |-> mLastRequestHeight,
                           st |-> mState, len |-> Len(heap[tok]),
                           lwAfter |-> r.lw, lhAfter |-> r.lh, stAfter |-> r.st,
                           lenAfter |-> Len(heap'[tok]), calls |-> r.calls]
    /\ UNCHANGED <<ctrlVars, readoutVars, mNextCapturedBuffers,
                   mNextCaptureTime, threadVars, superVars, now, cpc, vpc,
                   nextTok, iter, evs, overwritten, expLog, lastRet, vwin,
                   lastVRet>>

\* lines 319-336: sleep to the end of the frame unless the work took (nearly)
\* the whole period.  The clock is read only by the worker, so time passes in
\* this step: `work` is the time since the iteration started.  threadLoop
\* returns true and the Thread base class calls it again unless an exit was
\* requested.
WorkerPace(work) ==
    /\ wpc = "pace"
    /\ held' = Holding("pace", CaptureLocks)
    /\ LET workDoneRealTime == loc.startRealTime + work
           frameEndRealTime == loc.startRealTime + loc.frameDuration
       IN now' = IF workDoneRealTime < frameEndRealTime - timeAccuracy
                 THEN frameEndRealTime
                 ELSE workDoneRealTime
    /\ IF mExitPending
       THEN wpc' = "stopped" /\ mRunning' = FALSE
       ELSE wpc' = "stage1" /\ UNCHANGED mRunning
    /\ UNCHANGED <<ctrlVars, readoutVars, latchVars, mNextCapturedBuffers,
                   mNextCaptureTime, loc, mExitPending, superVars, mState,
                   heap, cpc, vpc, upActive, histVars>>

\* ---------------------------------------------------------- control surface

\* setFrameDuration (lines 125-129)
SetFrameDuration(ns) ==
    /\ mFrameDuration' = ns
    /\ held' = Holding("setter", SetterLocks)
    /\ UNCHANGED <<mNextBuffers, mFrameNumber, mListener, mGotVSync,
                   readoutVars, latchVars, workerVars, threadVars, superVars,
                   mState, heap, now, cpc, vpc, upActive, histVars>>

\* setDestinationBuffers (lines 131-134) with a Buffers object the caller has
\* filled with the stream buffers of `req`.
SetDestinationBuffers(req) ==
    /\ nextTok <= MaxInstalls
    /\ held' = Holding("setter", SetterLocks)
    /\ heap' = [heap EXCEPT ![nextTok] = req]
    /\ mNextBuffers' = nextTok
    /\ nextTok' = nextTok + 1
    /\ UNCHANGED <<mFrameDuration, mFrameNumber, mListener, mGotVSync,
                   readoutVars, latchVars, workerVars, threadVars, superVars,
                   mState, now, cpc, vpc, upActive, iter, evs, cap,
                   overwritten, lateWrites, expLog, lastRet, vwin, lastVRet,
                   upLog, upHist, disp>>

\* setDestinationBuffers(nullptr)
ClearDestinationBuffers ==
    /\ mNextBuffers # NULL
    /\ held' = Holding("setter", SetterLocks)
    /\ mNextBuffers' = NULL
    /\ UNCHANGED <<mFrameDuration, mFrameNumber, mListener, mGotVSync,
                   readoutVars, latchVars, workerVars, threadVars, superVars,
                   mState, heap, now, cpc, vpc, upActive, histVars>>

\* setFrameNumber (lines 136-139)
SetFrameNumber(n) ==
    /\ mFrameNumber # n
    /\ held' = Holding("setter", SetterLocks)
    /\ mFrameNumber' = n
    /\ UNCHANGED <<mFrameDuration, mNextBuffers, mListener, mGotVSync,
                   readoutVars, latchVars, workerVars, threadVars, superVars,
                   mState, heap, now, cpc, vpc, upActive, histVars>>

\* setQemuSensorListener (lines 177-180)
SetQemuSensorListener(listener) ==
    /\ mListener # listener
    /\ held' = Holding("setter", SetterLocks)
    /\ mListener' = listener
    /\ UNCHANGED <<mFrameDuration, mNextBuffers, mFrameNumber, mGotVSync,
                   readoutVars, latchVars, workerVars, threadVars, superVars,
                   mState, heap, now, cpc, vpc, upActive, histVars>>

\* waitForVSync (lines 143-146): clear the flag and wait.
WaitForVSyncCall(v) ==
    /\ vpc[v] = "idle"
    /\ held' = Holding("waitForVSync", WaitForVSyncLocks)
    /\ mGotVSync' = FALSE
    /\ vpc' = [vpc EXCEPT ![v] = "waiting"]
    /\ vwin' = [vwin EXCEPT ![v] = [duringWait |-> FALSE, beforeReturn |-> FALSE]]
    /\ UNCHANGED <<mFrameDuration, mNextBuffers, mFrameNumber, mListener,
                   readoutVars, latchVars, workerVars, threadVars, superVars,
                   mState, heap, now, cpc, upActive, nextTok, iter, evs, cap,
                   overwritten, lateWrites, expLog, lastRet, lastVRet, upLog, upHist, disp>>

\* line 146: waitRelative ends without a signal: by its timeout, with an
\* error, or spuriously (res = OK).
WaitForVSyncWake(v, how) ==
    /\ vpc[v] = "waiting"
    /\ held' = Holding("wake", WakingLocks)
    /\ vpc' = [vpc EXCEPT ![v] = how]
    /\ UNCHANGED <<ctrlVars, readoutVars, latchVars, workerVars, threadVars,
                   superVars, mState, heap, now, cpc, upActive, histVars>>

\* lines 147-151: the result once the mutex is held again.
WaitForVSyncResult(how) == IF how = "wokenErr" THEN FALSE ELSE mGotVSync

WaitForVSyncReturn(v) ==
    /\ vpc[v] \in {"wokenOK", "wokenTimeout", "wokenErr"}
    /\ held' = Holding("waitForVSync", WaitForVSyncLocks)
    /\ lastVRet' = [ok |-> WaitForVSyncResult(vpc[v]),
                    duringWait |-> vwin[v].duringWait,
                    beforeReturn |-> vwin[v].beforeReturn]
    /\ vpc' = [vpc EXCEPT ![v] = "idle"]
    /\ UNCHANGED <<ctrlVars, readoutVars, latchVars, workerVars, threadVars,
                   superVars, mState, heap, now, cpc, upActive, nextTok, iter,
                   evs, cap, overwritten, lateWrites, expLog, lastRet, vwin,
                   upLog, upHist, disp>>

\* line 170: the slot after a successful collection.
SlotAfterCollect == NULL

\* lines 167-171: signal `complete`, copy the time, clear the slot.
Collect(c) ==
    /\ wpc' = IF wpc = "waitComplete" THEN "wokenComplete" ELSE wpc
    /\ mCapturedBuffers' = SlotAfterCollect
    /\ lastRet' = [ok |-> TRUE, time |-> mCaptureTime,
                   tok |-> mCapturedBuffers, slotAfter |-> mCapturedBuffers']
    /\ cap' = IF mCapturedBuffers # NULL
              THEN [cap EXCEPT ![mCapturedBuffers].collected = @ + 1]
              ELSE cap
    /\ UNCHANGED mCaptureTime

ReturnFalse(c) ==
    /\ lastRet' = [ok |-> FALSE, time |-> 0, tok |-> NULL,
                   slotAfter |-> mCapturedBuffers]
    /\ UNCHANGED <<readoutVars, wpc, cap>>

\* waitForNewFrame (lines 155-159, 167-171): wait if the slot is empty, else
\* collect at once.
WaitForNewFrameCall(c) ==
    /\ cpc[c] = "idle"
    /\ held' = Holding("waitForNewFrame", WaitForNewFrameLocks)
    /\ IF mCapturedBuffers = NULL
       THEN /\ cpc' = [cpc EXCEPT ![c] = "waiting"]
            /\ UNCHANGED <<readoutVars, wpc, cap, lastRet>>
       ELSE /\ Collect(c)
            /\ UNCHANGED cpc
    /\ UNCHANGED <<ctrlVars, latchVars, mNextCapturedBuffers, mNextCaptureTime,
                   loc, threadVars, superVars, mState, heap, now, vpc,
                   upActive, nextTok, iter, evs, overwritten, lateWrites,
                   expLog, vwin, lastVRet, upLog, upHist, disp>>

\* line 159: waitRelative ends without a signal: spuriously (res = OK) or with
\* TIMED_OUT; any other error takes the path of TIMED_OUT (lines 160-165).
WaitForNewFrameWake(c, how) ==
    /\ cpc[c] = "waiting"
    /\ held' = Holding("wake", WakingLocks)
    /\ cpc' = [cpc EXCEPT ![c] = how]
    /\ UNCHANGED <<ctrlVars, readoutVars, latchVars, workerVars, threadVars,
                   superVars, mState, heap, now, vpc, upActive, histVars>>

\* lines 160-165: whether the call goes on to collect after its wait.
WaitSucceeded(how) == how = "wokenOK" /\ mCapturedBuffers # NULL

WaitForNewFrameResume(c) ==
    /\ cpc[c] \in {"wokenOK", "wokenTimeout"}
    /\ held' = Holding("waitForNewFrame", WaitForNewFrameLocks)
    /\ IF WaitSucceeded(cpc[c]) THEN Collect(c) ELSE ReturnFalse(c)
    /\ cpc' = [cpc EXCEPT ![c] = "idle"]
    /\ UNCHANGED <<ctrlVars, latchVars, mNextCapturedBuffers, mNextCaptureTime,
                   loc, threadVars, superVars, mState, heap, now, vpc,
                   upActive, nextTok, iter, evs, overwritten, lateWrites,
                   expLog, vwin, lastVRet, upLog, upHist, disp>>

\* ---------------------------------------------------------------- lifecycle

\* startUp (lines 72-81): clear the ReadoutSlot and Thread::run, which clears
\* the exit request and starts the worker.
StartUp ==
    /\ spc = "down"
    /\ held' = Holding("startUp", LifecycleLocks)
    /\ startUps < MaxStartUps
    /\ mCapturedBuffers' = NULL
    /\ mRunning' = TRUE
    /\ mExitPending' = FALSE
    /\ wpc' = "ready"
    /\ spc' = "connecting"
    /\ startUps' = startUps + 1
    /\ upHist' = [upHist EXCEPT !.workerCalled = FALSE]
    /\ UNCHANGED <<ctrlVars, mCaptureTime, latchVars, mNextCapturedBuffers,
                   mNextCaptureTime, loc, mState, heap, now, cpc, vpc,
                   upActive, nextTok, iter, evs, cap, overwritten, lateWrites,
                   expLog, lastRet, vwin, lastVRet, upLog, disp>>

\* startUp (lines 83-100): connectClient, then queryConnect.
StartUpConnect(connectRes, queryRes) ==
    /\ spc = "connecting"
    /\ held' = Holding("startUp", LifecycleLocks)
    /\ mState' = IF connectRes = "OK" /\ queryRes = "OK" THEN "CONNECTED" ELSE mState
    /\ upLog' = << [op |-> "connect",
                    res |-> IF connectRes = "OK" THEN queryRes ELSE connectRes,
                    w |-> NoDim, h |-> NoDim, yuvSize |-> 0, rgbaSize |-> 0,
                    active |-> upActive] >>
    /\ upHist' = AfterCalls(upHist, upLog')
    /\ UNCHANGED disp
    /\ spc' = "up"
    /\ UNCHANGED <<ctrlVars, readoutVars, latchVars, workerVars, threadVars,
                   startUps, heap, now, cpc, vpc, upActive, nextTok, iter,
                   evs, cap, overwritten, lateWrites, expLog, lastRet, vwin,
                   lastVRet>>

\* shutDown (line 106): requestExitAndWait sets the exit request ...
ShutDownRequest ==
    /\ spc = "up"
    /\ held' = Holding("shutDown", LifecycleLocks)
    /\ mExitPending' = TRUE
    /\ spc' = "joining"
    /\ UNCHANGED <<ctrlVars, readoutVars, latchVars, workerVars, mRunning,
                   startUps, mState, heap, now, cpc, vpc, upActive, histVars>>

\* ... and returns once the worker has exited; then queryStop (lines 111-122).
ShutDownStop(stopRes) ==
    /\ spc = "joining"
    /\ held' = Holding("shutDown", LifecycleLocks)
    /\ ~mRunning
    /\ mExitPending' = FALSE
    /\ mState' = IF stopRes = "OK" THEN "CONNECTED" ELSE mState
    /\ upActive' = IF stopRes = "OK" THEN NoUp ELSE upActive
    /\ upLog' = << StopCall(stopRes) >>
    /\ upHist' = AfterCalls(upHist, upLog')
    /\ UNCHANGED disp
    /\ spc' = "down"
    /\ UNCHANGED <<ctrlVars, readoutVars, latchVars, workerVars, mRunning,
                   startUps, heap, now, cpc, vpc, nextTok, iter, evs, cap,
                   overwritten, lateWrites, expLog, lastRet, vwin, lastVRet>>

\* ------------------------------------------------------------ specification
FrameWakes == {"wokenOK", "wokenTimeout"}
VSyncWakes == {"wokenOK", "wokenTimeout", "wokenErr"}
FrameDurations == {kFrameDurationMin, kFrameDurationMax}
WorkTimes == {0, LongWork}

\* The worker thread; `results` are the results the upstream operations can
\* return, `works` the times an iteration's work can take.
Worker(results, works) ==
    \/ ReadyToRun
    \/ WorkerSnapshot
    \/ WorkerHandoff
    \/ WorkerSpuriousWake
    \/ WorkerResume
    \/ WorkerCapture
    \/ \E stopRes \in results, startRes \in results : WorkerDispatch(stopRes, startRes)
    \/ \E work \in works : WorkerPace(work)

FrameReaders(cs) ==
    \/ \E c \in cs : WaitForNewFrameCall(c)
    \/ \E c \in cs, how \in FrameWakes : WaitForNewFrameWake(c, how)
    \/ \E c \in cs : WaitForNewFrameResume(c)

VSyncReaders ==
    \/ \E v \in VWaiters : WaitForVSyncCall(v)
    \/ \E v \in VWaiters, how \in VSyncWakes : WaitForVSyncWake(v, how)
    \/ \E v \in VWaiters : WaitForVSyncReturn(v)

Starter(results) ==
    \/ StartUp
    \/ \E connectRes \in results, queryRes \in results : StartUpConnect(connectRes, queryRes)

Stopper(results) ==
    \/ ShutDownRequest
    \/ \E stopRes \in results : ShutDownStop(stopRes)

\* The readout rendezvous: the worker, callers installing Buffers and a
\* listener, and callers of waitForNewFrame.
Next ==
    \/ Worker({"OK"}, {0})
    \/ \E req \in {ReqNV21} : SetDestinationBuffers(req)
    \/ ClearDestinationBuffers
    \/ \E l \in {NULL, 1} : SetQemuSensorListener(l)
    \/ FrameReaders(Consumers)
    \/ Starter({"OK"})

Spec == Init /\ [][Next]_vars

\* The upstream lifecycle: requests of several formats and dimensions,
\* upstream operations that fail, shutDown followed by startUp.
LifecycleNext ==
    \/ Worker(Status, {0})
    \/ \E req \in Requests : SetDestinationBuffers(req)
    \/ Starter(Status)
    \/ Stopper(Status)

LifecycleSpec == Init /\ [][LifecycleNext]_vars

\* Timing and events: frame durations, frame numbers, listeners, iterations
\* that overrun their period.
ClockNext ==
    \/ Worker({"OK"}, WorkTimes)
    \/ \E req \in {ReqNV21} : SetDestinationBuffers(req)
    \/ \E ns \in FrameDurations : SetFrameDuration(ns)
    \/ \E n \in 1..MaxFrameNumber : SetFrameNumber(n)
    \/ \E l \in {NULL, 1} : SetQemuSensorListener(l)
    \/ Starter({"OK"})

ClockSpec == Init /\ [][ClockNext]_vars

\* The VSync gate: the worker and the callers of waitForVSync.
VSyncNext ==
    \/ Worker({"OK"}, {0})
    \/ \E req \in {ReqNV21} : SetDestinationBuffers(req)
    \/ VSyncReaders
    \/ Starter({"OK"})

VSyncSpec == Init /\ [][VSyncNext]_vars

\* Scheduling: a thread that can take a step eventually takes one.  A wait
\* with a deadline ends; a wait without one (the worker's, on `complete`)
\* ends when signalled, and may but need not end spuriously.
WorkerRuns ==
    \/ ReadyToRun
    \/ WorkerSnapshot
    \/ WorkerHandoff
    \/ WorkerResume
    \/ WorkerCapture
    \/ WorkerDispatch("OK", "OK")
    \/ WorkerPace(0)

\* A consumer that keeps calling waitForNewFrame; no shutDown.
FairNext ==
    \/ Worker({"OK"}, {0})
    \/ \E req \in {ReqNV21} : SetDestinationBuffers(req)
    \/ FrameReaders({"c1"})
    \/ Starter({"OK"})

FairSpec ==
    /\ Init /\ [][FairNext]_vars
    /\ WF_vars(WorkerRuns)
    /\ WF_vars(FrameReaders({"c1"}))
    /\ WF_vars(Starter({"OK"}))

\* shutDown at any time; callers of waitForNewFrame are free not to call.
ShutdownNext ==
    \/ Worker({"OK"}, {0})
    \/ \E req \in {ReqNV21, ReqBlob} : SetDestinationBuffers(req)
    \/ FrameReaders({"c1"})
    \/ Starter({"OK"})
    \/ Stopper({"OK"})

ShutdownSpec ==
    /\ Init /\ [][ShutdownNext]_vars
    /\ WF_vars(WorkerRuns)
    /\ WF_vars(Starter({"OK"}))
    /\ WF_vars(Stopper({"OK"}))

\* A caller submitting requests: request k is setDestinationBuffers of the
\* k-th Buffers and setFrameNumber(k), two separate calls in either order;
\* the calls of request k+1 follow those of request k.
RequestBuffers(req) ==
    /\ mFrameNumber >= nextTok - 1
    /\ SetDestinationBuffers(req)

RequestFrameNumber ==
    /\ mFrameNumber + 1 <= nextTok
    /\ mFrameNumber + 1 <= MaxInstalls
    /\ SetFrameNumber(mFrameNumber + 1)

RequestNext ==
    \/ Worker({"OK"}, {0})
    \/ \E req \in {ReqNV21} : RequestBuffers(req)
    \/ RequestFrameNumber
    \/ SetQemuSensorListener(1)
    \/ FrameReaders({"c1"})
    \/ Starter({"OK"})

RequestSpec == Init /\ [][RequestNext]_vars

\* Every thread that takes a mutex: the worker, a caller of waitForVSync, a
\* caller of waitForNewFrame, and a caller that configures the sensor
\* (listener, frame duration, frame number, in this order) before it
\* installs Buffers.
LockNext ==
    \/ Worker({"OK"}, {0})
    \/ SetQemuSensorListener(1)
    \/ mListener = 1 /\ SetFrameDuration(kFrameDurationMax)
    \/ mFrameDuration = kFrameDurationMax /\ SetFrameNumber(1)
    \/ mFrameNumber = 1 /\ (\E req \in {ReqNV21} : SetDestinationBuffers(req))
    \/ WaitForVSyncCall("v1")
    \/ WaitForVSyncWake("v1", "wokenTimeout")
    \/ WaitForVSyncReturn("v1")
    \/ FrameReaders({"c1"})
    \/ Starter({"OK"})

LockSpec == Init /\ [][LockNext]_vars

\* The capture dispatch: sets of several buffers, formats that are skipped,
\* BLOBs, changes of resolution, upstream operations that fail.
DispatchNext ==
    \/ Worker(Status, {0})
    \/ \E req \in DispatchRequests : SetDestinationBuffers(req)
    \/ SetQemuSensorListener(1)
    \/ FrameReaders({"c1"})
    \/ Starter({"OK"})

DispatchSpec == Init /\ [][DispatchNext]_vars

\* Buffers of both capture formats that all have the same dimensions.
SameDimsNext ==
    \/ Worker(Status, {0})
    \/ \E req \in SameDimsRequests : SetDestinationBuffers(req)
    \/ Starter({"OK"})

SameDimsSpec == Init /\ [][SameDimsNext]_vars

\* ------------------------------------------------------------------ claims

\* C1: the worker stores a captured set into the ReadoutSlot only when the
\* slot is empty, so no published set is overwritten before a successful
\* waitForNewFrame has collected it, and each published set is collected by
\* at most one successful waitForNewFrame.
C1_NoFrameLost ==
    /\ overwritten = {}
    /\ \A t \in Tokens : cap[t].collected <= 1

\* C2: an installed Buffers reference is captured in at most one iteration.
C2_ConsumedOnce == \A t \in Tokens : cap[t].count <= 1

\* a set was captured and a later iteration has finished its capture stage
C2_Witness ==
    \E t \in Tokens : cap[t].count = 1 /\ cap[t].iter < iter /\ wpc = "pace"

\* C3: within an iteration VSync comes first, then the readout of the set
\* captured in the iteration before, then EXPOSURE_START; a set captured in
\* iteration i is published in iteration i+1, after that iteration's VSync.
C3_StageOrder ==
    /\ evs \in { << >>, << "VSYNC" >>, << "VSYNC", "READOUT" >>,
                 << "VSYNC", "EXPOSURE" >>,
                 << "VSYNC", "READOUT", "EXPOSURE" >> }
    /\ \A t \in Tokens : cap[t].pubs > 0 => cap[t].pubIter = cap[t].iter + 1
    /\ mCapturedBuffers # NULL => cap[mCapturedBuffers].iter < iter

\* an iteration that raised VSync, published the previous set and delivered
\* EXPOSURE_START for the next
C3_Witness == evs = << "VSYNC", "READOUT", "EXPOSURE" >>

\* C4: once a set is published to the ReadoutSlot the worker issues no
\* fetchFrame for it and appends no auxiliary buffer to it.
C4_NoWriteAfterPublish ==
    /\ lateWrites = {}
    /\ wpc = "dispatch" => cap[mNextCapturedBuffers].pubs = 0

\* a set was written and published, and the worker has since written another
C4_Witness ==
    \E t \in Tokens, u \in Tokens :
        /\ t # u
        /\ cap[t].pubs > 0 /\ cap[t].fetches > 0
        /\ cap[u].fetches > 0 /\ cap[u].iter >= cap[t].pubIter

\* C5: waitForVSync returns true if and only if the worker raised a VSync
\* during the call's wait.  The two directions are stated with the windows
\* most favourable to the code: true requires a VSync between the start of the
\* wait and the return; a VSync between the start of the wait and its
\* wake-up requires true.
C5_TrueIffVSync ==
    /\ lastVRet.ok => lastVRet.beforeReturn
    /\ lastVRet.duringWait => lastVRet.ok

\* C6: a waitForNewFrame that returns true returns a set the worker captured
\* in an earlier iteration and then published, with the capture time recorded
\* in that iteration (the time of its EXPOSURE_START), and leaves the slot
\* empty.
C6_ReturnedFrameWasCaptured ==
    lastRet.ok =>
        /\ lastRet.tok # NULL
        /\ cap[lastRet.tok].count >= 1
        /\ cap[lastRet.tok].pubs >= 1
        /\ cap[lastRet.tok].iter < cap[lastRet.tok].pubIter
        /\ lastRet.time = cap[lastRet.tok].time
        /\ \A k \in 1..Len(expLog) :
              expLog[k].tok = lastRet.tok => expLog[k].time = lastRet.time
        /\ lastRet.slotAfter = NULL

\* a successful return of a set captured after the first iteration, for which
\* EXPOSURE_START was delivered
C6_Witness ==
    /\ lastRet.ok
    /\ lastRet.time > 0
    /\ \E k \in 1..Len(expLog) : expLog[k].tok = lastRet.tok

\* What C7 says of the events apart from their number per capture: each
\* event belongs to a capture and carries its time and iteration, the event of
\* the current iteration carries the snapshot's frame number, the events'
\* times and iterations are strictly increasing, and the event is there when
\* the first buffer is dispatched.
ExposureEventsWellFormed ==
    /\ \A k \in 1..Len(expLog) :
          /\ expLog[k].tok # NULL
          /\ cap[expLog[k].tok].time = expLog[k].time
          /\ cap[expLog[k].tok].iter = expLog[k].iter
    /\ \A j \in 1..Len(expLog), k \in 1..Len(expLog) :
          j < k => /\ expLog[j].time < expLog[k].time
                   /\ expLog[j].iter < expLog[k].iter
    /\ Len(expLog) = Cardinality({t \in Tokens : cap[t].exposures > 0})
    /\ wpc \in {"dispatch", "pace"} /\ mNextCapturedBuffers # NULL /\ loc.listener # NULL
          => /\ Len(expLog) > 0
             /\ expLog[Len(expLog)] =
                  [tok |-> mNextCapturedBuffers, frameNumber |-> loc.frameNumber,
                   time |-> mNextCaptureTime, iter |-> iter]

\* C7 as stated: every iteration that snapshotted a destination delivers
\* exactly one EXPOSURE_START, before any dispatch, with strictly increasing
\* times; an iteration without a destination delivers none.
C7_ExposurePerCapture ==
    /\ \A t \in Tokens : cap[t].exposures = cap[t].count
    /\ ExposureEventsWellFormed

\* C7 amended: ... that snapshotted a destination and a listener delivers
\* exactly one EXPOSURE_START; an iteration without a destination or without
\* a listener delivers none.
C7_ExposureIfListener ==
    /\ \A t \in Tokens :
          cap[t].exposures = IF cap[t].listener # NULL THEN cap[t].count ELSE 0
    /\ \A t \in Tokens : cap[t].exposures <= 1
    /\ ExposureEventsWellFormed

\* two iterations have delivered EXPOSURE_START
C7_Witness == Len(expLog) = 2

\* C8: with fair scheduling, no shutDown and a consumer that keeps calling
\* waitForNewFrame, every set the worker captured is eventually returned by
\* a successful waitForNewFrame.  (Sets captured in the last iteration the
\* model runs are left out: their handoff is beyond MaxIter.)
C8_EventuallyDelivered ==
    \A t \in Tokens :
        (cap[t].count > 0 /\ cap[t].iter < MaxIter) ~> (cap[t].collected > 0)

\* C9: shutDown terminates from every state of the worker, and issues the
\* upstream stop (its last step) only when the worker has exited.
C9_ShutDownTerminates ==
    /\ [](spc = "down" => ~mRunning)
    /\ (spc = "joining") ~> (spc = "down")

\* C10: every fetchFrame for a buffer of dimensions (w,h) is issued while the
\* upstream's last successful lifecycle operation is start(NV21,w,h).
C10_FetchWhileStarted ==
    \A k \in 1..Len(upLog) :
        upLog[k].op = "fetch" => upLog[k].active = << upLog[k].w, upLog[k].h >>

\* An upstream call of the given kind that succeeded, among `calls`.
Succeeded(calls, op) ==
    \E k \in 1..Len(calls) : calls[k].op = op /\ calls[k].res = "OK"

\* C11: the sensor state agrees with the upstream.  STARTED: the upstream's
\* active start has the dimensions of the resolution latch.  CONNECTED:
\* connect has succeeded, and a stop was issued since the last successful
\* start or no start has succeeded.  The state changes only from INITIAL to
\* CONNECTED by a successful connect, from CONNECTED to STARTED by a
\* successful start and from STARTED to CONNECTED by a successful stop.
C11_StateAgreesWithUpstream ==
    /\ [](/\ mState = "STARTED" =>
                /\ upActive # NoUp
                /\ upActive = << mLastRequestWidth, mLastRequestHeight >>
          /\ mState = "CONNECTED" =>
                /\ upHist.connected
                /\ upHist.stopIssued \/ ~upHist.started)
    /\ [][mState' # mState =>
            \/ /\ mState = "INITIAL" /\ mState' = "CONNECTED"
               /\ Succeeded(upLog', "connect")
            \/ /\ mState = "CONNECTED" /\ mState' = "STARTED"
               /\ Succeeded(upLog', "start")
            \/ /\ mState = "STARTED" /\ mState' = "CONNECTED"
               /\ Succeeded(upLog', "stop")]_vars

\* C12: the EXPOSURE_START of an iteration carries the frame number of the
\* iteration's snapshot, and the event for a Buffers set carries the frame
\* number the caller set for that set (request k: the k-th Buffers, frame
\* number k), however the two calls interleave with the snapshot.
C12_FrameNumberOfRequest ==
    /\ (wpc \in {"dispatch", "pace"} /\ mNextCapturedBuffers # NULL
            /\ loc.listener # NULL)
          => expLog[Len(expLog)].frameNumber = loc.frameNumber
    /\ \A k \in 1..Len(expLog) : expLog[k].frameNumber = expLog[k].tok

\* C13: the upstream client is used by one thread at a time.  startUp's
\* connect is not made once the worker it spawned has called the upstream;
\* no start or fetchFrame is issued before connect has succeeded; shutDown's
\* stop is made when the worker has exited.
C13_UpstreamSingleCaller ==
    /\ \A k \in 1..Len(upLog) :
          /\ upLog[k].op = "connect" => ~upHist.workerCalled
          /\ upLog[k].op \in {"start", "fetch"} => upHist.connected
    /\ spc = "down" => wpc = "stopped"

\* C14: backpressure.  The worker gets past the handoff of a second captured
\* set only after a waitForNewFrame has collected the set in the ReadoutSlot,
\* so a set published before another one was collected, and at most two
\* captured sets are outstanding (captured and not collected).
C14_Backpressure ==
    /\ \A t \in Tokens, u \in Tokens :
          (cap[t].pubs > 0 /\ cap[u].pubs > 0 /\ cap[t].pubIter < cap[u].pubIter)
              => cap[t].collected > 0
    /\ Cardinality({t \in Tokens : cap[t].count > 0 /\ cap[t].collected = 0}) <= 2

\* C15: no step of the worker or of a control-surface operation holds both
\* mutexes (so no thread holds one mutex while it waits for the other, and no
\* cycle of threads waiting for each other's mutexes exists), and the worker
\* holds no mutex while it calls the listener, dispatches captures or sleeps.
C15_NoNestedLocks ==
    /\ \A s \in Steps : Cardinality(held[s]) <= 1
    /\ \A s \in {"capture", "dispatch", "pace", "wake"} : held[s] = {}

\* the worker has taken each of its mutexes and dispatched a capture, after
\* EXPOSURE_START went to the listener, while a caller waits for VSync and
\* another for a frame
C15_Witness ==
    /\ held["snapshot"] # {} /\ held["handoff"] # {} /\ held["setter"] # {}
    /\ wpc = "pace" /\ mNextCapturedBuffers # NULL
    /\ vpc["v1"] = "waiting"
    /\ cpc["c1"] = "waiting"
    /\ Len(expLog) > 0

\* The last dispatch was of a buffer of a capture format whose dimensions
\* differ from the resolution latch.
ResolutionChange ==
    /\ disp.i > 0
    /\ disp.b.format \in {"RGBA_8888", "YCbCr_420_888"}
    /\ disp.b.width # disp.lw \/ disp.b.height # disp.lh

\* C16: on a resolution change the upstream calls of the dispatch are a stop
\* (if and only if the latch is not the sentinel) immediately followed by
\* start(w,h), then at most one fetchFrame, for (w,h) and only after a
\* successful start.
C16_StopThenStart ==
    ResolutionChange =>
        LET hasStop == disp.lw # NoDim \/ disp.lh # NoDim
            s == IF hasStop THEN 2 ELSE 1
            n == Len(disp.calls)
        IN /\ n \in {s, s + 1}
           /\ hasStop => disp.calls[1].op = "stop"
           /\ disp.calls[s].op = "start"
           /\ disp.calls[s].w = disp.b.width /\ disp.calls[s].h = disp.b.height
           /\ n = s + 1 =>
                 /\ disp.calls[n].op = "fetch"
                 /\ disp.calls[n].w = disp.b.width
                 /\ disp.calls[n].h = disp.b.height
                 /\ disp.calls[s].res = "OK"

\* a change from one resolution to another: stop, start, fetchFrame
C16_Witness ==
    /\ ResolutionChange
    /\ disp.lw # NoDim
    /\ Len(disp.calls) = 3

\* C17: the RGBA and the NV21 path share the resolution latch.  When all
\* buffers have the same dimensions and the first start succeeds, the
\* upstream sees exactly one start and no stop, whatever the order of the
\* formats.
C17_OneStartForSameDims ==
    upHist.firstStart = "OK" =>
        /\ upHist.starts = 1
        /\ upHist.stops = 0
        /\ upActive = << 640, 480 >>

\* frames were fetched on the RGBA path and on the NV21 path, in two sets
C17_Witness ==
    /\ upHist.firstStart = "OK"
    /\ \E t \in Tokens, u \in Tokens :
          /\ t # u
          /\ cap[t].fetches > 0 /\ cap[u].fetches > 0
          /\ \E k \in 1..Len(heap[t]), j \in 1..Len(heap[u]) :
                heap[t][k].format # heap[u][j].format

\* C18: when start fails during a resolution change the latch keeps its
\* value, no fetchFrame is issued for the buffer and the sensor state
\* afterwards is CONNECTED, whatever the stop before it returned.  (Stated for
\* dispatches that began after connect had set the state.)
C18_FailedStartLeavesConnected ==
    (/\ ResolutionChange
     /\ disp.st # "INITIAL"
     /\ \E k \in 1..Len(disp.calls) :
           disp.calls[k].op = "start" /\ disp.calls[k].res # "OK")
        => /\ disp.lwAfter = disp.lw /\ disp.lhAfter = disp.lh
           /\ \A k \in 1..Len(disp.calls) : disp.calls[k].op # "fetch"
           /\ disp.stAfter = "CONNECTED"

\* The stream buffers the caller put into set t (the sensor's own have
\* streamId 0), and those of them that are BLOBs with a dataSpace other than
\* DEPTH.
Submitted(t) == SelectSeq(heap[t], LAMBDA b : b.streamId # 0)
JpegBlobs(t) ==
    SelectSeq(Submitted(t), LAMBDA b : b.format = "BLOB" /\ b.dataSpace # "DEPTH")

\* C19: a BLOB whose dataSpace is not DEPTH gets exactly one auxiliary buffer
\* appended to its set: streamId 0, YCbCr_420_888, the BLOB's width and
\* height, stride = width, a region of width*height*3 bytes.  The set never
\* holds more, holds exactly that once its dispatch loop has ended, and a set
\* with one such BLOB reaches the consumer with one buffer more than submitted.
C19_OneAuxPerBlob ==
    /\ \A t \in Tokens :
          LET n == Len(Submitted(t))
              blobs == JpegBlobs(t)
          IN /\ Len(heap[t]) <= n + Len(blobs)
             /\ (cap[t].count > 0 /\ ~(mNextCapturedBuffers = t /\ wpc = "dispatch"))
                   => Len(heap[t]) = n + Len(blobs)
             /\ \A k \in (n + 1)..Len(heap[t]) :
                   /\ heap[t][k].streamId = 0
                   /\ heap[t][k].format = "YCbCr_420_888"
                   /\ heap[t][k].width = blobs[k - n].width
                   /\ heap[t][k].height = blobs[k - n].height
                   /\ heap[t][k].stride = blobs[k - n].width
                   /\ heap[t][k].img = blobs[k - n].width * blobs[k - n].height * 3
                   /\ heap[t][k].img > 0
    /\ (lastRet.ok /\ lastRet.tok # NULL) =>
          (Len(JpegBlobs(lastRet.tok)) = 1 =>
              Len(heap[lastRet.tok]) = Len(Submitted(lastRet.tok)) + 1)

\* a consumer was handed a set submitted with one BLOB; it holds two buffers
C19_Witness ==
    /\ lastRet.ok
    /\ lastRet.tok # NULL
    /\ Len(JpegBlobs(lastRet.tok)) = 1
    /\ Len(heap[lastRet.tok]) = 2
    /\ cap[lastRet.tok].fetches = 1

\* C20: a buffer of format RGB_888, a BLOB with dataSpace DEPTH or a buffer of
\* an unknown format causes no upstream call, no append and no change of the
\* latch or the sensor state; EXPOSURE_START for its set is delivered all the
\* same; the loop visits every buffer of the set in order, whatever was
\* skipped or failed before, and ends with the last one.
C20_SkippedBuffersIsolated ==
    /\ (/\ disp.i > 0
        /\ \/ disp.b.format \notin {"RGBA_8888", "YCbCr_420_888", "BLOB"}
           \/ disp.b.format = "BLOB" /\ disp.b.dataSpace = "DEPTH")
          => /\ disp.calls = << >>
             /\ disp.lenAfter = disp.len
             /\ disp.lwAfter = disp.lw /\ disp.lhAfter = disp.lh
             /\ disp.stAfter = disp.st
    /\ (wpc \in {"dispatch", "pace"} /\ mNextCapturedBuffers # NULL) =>
          LET tok == mNextCapturedBuffers
          IN /\ loc.listener # NULL => cap[tok].exposures = 1
             /\ disp.tok = tok
             /\ disp.i = loc.i - 1
             /\ wpc = "dispatch" => loc.i <= Len(heap[tok])
             /\ wpc = "pace" => loc.i = Len(heap[tok]) + 1

\* the three skipped buffers of a set were passed over, the capture of the
\* buffer after them failed at its first try in an earlier set and fetched a
\* frame in this one, and the worker went on to a later iteration
C20_Witness ==
    \E t \in Tokens :
        /\ Submitted(t) = ReqSkips
        /\ cap[t].fetches = 1
        /\ cap[t].exposures = 1
        /\ cap[t].iter < iter
        /\ upHist.firstStart = "ERR"

====
